---- MODULE Spec2Model ----
(***************************************************************************)
(* Model of imserv: the image index (table `image`), the managed folder,   *)
(* Image.from_bytes_io / Image.from_existing / Image._create, Image.move,  *)
(* Image.delete, ImServ.refresh and ImServ.calculate_hash.                 *)
(*                                                                         *)
(* File contents are abstract byte strings 1..5; a path of the managed     *)
(* folder is a record (dir, stem, sfx), every file having the suffix .png. *)
(***************************************************************************)
EXTENDS Integers, Sequences, FiniteSets, TLC

\* ------------------------------------------------------------------ bounds
MaxId == 3          \* autoincrement ids handed out by the table
MaxEdits == 1       \* edits made to the folder from outside the program
MaxSteps == 4       \* calls and edits in one run
MaxCounter == 0     \* largest numeric suffix tried by nonrepeat_filename
HashBits == 3       \* width of a perceptual hash

\* ---------------------------------------------------------------- contents
Absent == 0         \* no file at a path
NoHash == 0 - 1     \* image_hash IS NULL / get_image_hash returned None
NoChecksum == 0 - 2
NoId == 0
NoTags == <<"<None>">>   \* tags=None, the default of from_bytes_io / from_existing
NoName == "<None>"       \* filename=None

Contents == 1..5

\* PIL.Image.open succeeds on contents 1..4; content 5 is not an image
Decodable(c) == c \in 1..4

\* pixels of a decodable content: contents 1 and 2 hold the same picture,
\* 1 with a border that trim_image removes and 2 without
RawHash(c) == CASE c = 1 -> 0 [] c = 2 -> 0 [] c = 3 -> 1 [] c = 4 -> 7 [] OTHER -> NoHash

\* bytes written by im.save() of the picture opened from c
\* (trim/shrink applied or not)
Saved(c, normalise) == IF c = 1 /\ normalise THEN 2 ELSE c

get_checksum(c) == IF c = Absent THEN NoChecksum ELSE 100 + c

\* get_image_hash of a file or an opened picture
get_image_hash(c) == IF c # Absent /\ Decodable(c) THEN RawHash(c) ELSE NoHash

\* --------------------------------------------------------- perceptual hash
RECURSIVE hex_to_hash(_, _)
hex_to_hash(h, n) == IF n = 0 THEN <<>> ELSE hex_to_hash(h \div 2, n - 1) \o <<h % 2>>

RECURSIVE CountDiff(_, _)
CountDiff(a, b) ==
    IF a = <<>> THEN 0
    ELSE (IF Head(a) # Head(b) THEN 1 ELSE 0) + CountDiff(Tail(a), Tail(b))

\* imagehash.ImageHash.__sub__
HashDistance(h1, h2) == CountDiff(hex_to_hash(h1, HashBits), hex_to_hash(h2, HashBits))

\* ------------------------------------------------------------------- paths
NoSfx == [k |-> "none", s |-> "", n |-> 0]
SlugSfx(s) == [k |-> "slug", s |-> s, n |-> 0]
NumSfx(i) == [k |-> "num", s |-> "", n |-> i]

FN(d, st, sf) == [dir |-> d, stem |-> st, sfx |-> sf]

TagNames == {"cat"}
Sfxs == {NoSfx} \cup {SlugSfx(s) : s \in TagNames} \cup {NumSfx(i) : i \in 0..MaxCounter}

Uuids == {"u1"}
NewFile == FN(<<"a", "b">>, "new", NoSfx)

AllPaths ==
    {FN(<<>>, "img", sf) : sf \in Sfxs}
    \cup {FN(<<>>, "cat_copy", sf) : sf \in Sfxs}
    \cup {FN(<<"a", "b">>, "new", sf) : sf \in Sfxs}

\* a fixed enumeration order of the folder (Path.glob) and of sets of ids
RECURSIVE SetToSeq(_)
SetToSeq(S) ==
    IF S = {} THEN <<>>
    ELSE CHOOSE sq \in UNION {{<<x>> \o SetToSeq(T) : T \in {S \ {x}}} :
                                 x \in {CHOOSE y \in S : TRUE}} : TRUE

RECURSIVE SortedIds(_)
SortedIds(S) ==
    IF S = {} THEN <<>>
    ELSE CHOOSE sq \in UNION {{<<m>> \o SortedIds(T) : T \in {S \ {m}}} :
                                 m \in {CHOOSE y \in S : \A z \in S : y <= z}} : TRUE

NoPath == FN(<<>>, "", NoSfx)

PathOrder == SetToSeq(AllPaths)

\* ------------------------------------------------------------------- state
VARIABLES
    records,    \* table `image`: id -> row (filename, checksum, image_hash, tags)
    nextId,     \* next autoincrement id
    disk,       \* managed folder: path -> content, Absent when there is no file
    config,     \* config['skip_hash'], config['hash_difference_threshold']
    session,    \* "active", or "inactive" after a failed flush (no rollback is ever issued)
    edits,      \* number of edits made from outside so far
    steps,      \* number of calls and edits so far
    origin,     \* id -> the source content whose import created the row
    ret         \* what the last call did and returned

vars == <<records, nextId, disk, config, session, edits, steps, origin, ret>>

Row(f, ck, h, tg) == [filename |-> f, checksum |-> ck, image_hash |-> h, tags |-> tg]

Ids(recs) == DOMAIN recs

\* one more call or edit
Step ==
    /\ steps' = steps + 1
    /\ origin' = [i \in Ids(records') |-> IF i \in Ids(records) THEN origin[i] ELSE ret'.content]

\* rows without the row `id`
Without(recs, id) == [i \in Ids(recs) \ {id} |-> recs[i]]

With(recs, id, row) == [i \in Ids(recs) \cup {id} |-> IF i = id THEN row ELSE recs[i]]

\* Image.exists
exists(dsk, f) == dsk[f] # Absent

\* query.filter_by(...).first(): the row with the lowest id, NoId when none
First(S) == IF S = {} THEN NoId ELSE CHOOSE m \in S : \A z \in S : m <= z

ByChecksum(recs, ck) == First({i \in Ids(recs) : recs[i].checksum = ck})

\* mutant: a lookup by image_hash that never finds a row
ByImageHash_Never(recs, h) == NoId

ByImageHash(recs, h) == First({i \in Ids(recs) : recs[i].image_hash = h})

\* the unique constraints of the table that a row (f, h) stored under `id` violates
Violations(recs, id, f, h) ==
    (IF \E i \in Ids(recs) \ {id} : recs[i].filename = f THEN {"filename"} ELSE {})
    \cup (IF h # NoHash /\ \E i \in Ids(recs) \ {id} : recs[i].image_hash = h
          THEN {"image_hash"} ELSE {})

\* ---------------------------------------------------------------- outcomes
NoRet ==
    [op |-> "init", outcome |-> "none", content |-> Absent, req |-> NoName,
     tags |-> NoTags, filename |-> NoPath, rec |-> NoId, violated |-> {},
     flag |-> FALSE, pruned |-> {}, updated |-> {}, added |-> {}, onePruned |-> FALSE,
     dupPair |-> FALSE, batch |-> 0, processed |-> 0, tagsBefore |-> {}, tagArg |-> {}]

\* result of a call on the index: new rows, new folder, new id counter
Res(out, recs, dsk, nid, id, touched, violated) ==
    [outcome |-> out, records |-> recs, disk |-> dsk, nextId |-> nid, rec |-> id,
     touched |-> touched, violated |-> violated]

\* ------------------------------------------------------ near-duplicate scan
\* Image.similar_images_by_hash is a generator: with a threshold it yields
\* the rows in table order and raises as soon as hex_to_hash meets a NULL
\* image_hash; without one the `return iter(...)` of a generator yields nothing.
RECURSIVE ScanSimilar(_, _, _, _)
ScanSimilar(recs, ids, h, t) ==
    IF ids = <<>> THEN [yielded |-> <<>>, raised |-> FALSE]
    ELSE IF recs[Head(ids)].image_hash = NoHash
         THEN [yielded |-> <<>>, raised |-> TRUE]
         ELSE LET rest == ScanSimilar(recs, Tail(ids), h, t)
              IN IF HashDistance(recs[Head(ids)].image_hash, h) < t
                 THEN [rest EXCEPT !.yielded = <<Head(ids)>> \o @]
                 ELSE rest

similar_images_by_hash(recs, h, t) ==
    IF t # 0 THEN ScanSimilar(recs, SortedIds(Ids(recs)), h, t)
    ELSE [yielded |-> <<>>, raised |-> FALSE]

\* --------------------------------------------------------------- filenames
slugify(s) == s

\* '-'.join(tags) for the tag lists of the model
JoinTags(tags) == IF tags = <<>> THEN "" ELSE tags[1]

\* nonrepeat.nonrepeat_filename(filename, primary_suffix, root)
nonrepeat_filename(dsk, f, primary_suffix) ==
    LET withSlug == [f EXCEPT !.sfx = SlugSfx(primary_suffix)]
        free == {i \in 0..MaxCounter : ~exists(dsk, [f EXCEPT !.sfx = NumSfx(i)])}
    IN IF ~exists(dsk, f) THEN f
       ELSE IF primary_suffix # "" /\ ~exists(dsk, withSlug) THEN withSlug
       ELSE IF free = {} THEN NoPath
       ELSE [f EXCEPT !.sfx = NumSfx(CHOOSE i \in free : \A j \in free : i <= j)]

\* t.split('\n') of a tag of the model
Lines(t) == IF t = "a\nb" THEN {"a", "b"} ELSE {t}

\* set(Image.tags) once tags_str = '\n'.join(T): an empty tags_str gives no
\* tag, any other one the lines it holds. The field `tags` of a row is this set.
TagsOf(T) == IF T \subseteq {""} THEN {} ELSE UNION {Lines(t) : t \in T}

\* Image.add_tags on a row
add_tags(row, tags) ==
    [row EXCEPT !.tags = TagsOf(@ \cup {tags[i] : i \in 1..Len(tags)})]

\* Image.remove_tags on a row: nothing is written when the row has no tag
remove_tags(row, tags) ==
    [row EXCEPT !.tags = IF @ = {} THEN @ ELSE TagsOf(@ \ {tags[i] : i \in 1..Len(tags)})]

\* ----------------------------------------------------------------- _create
\* _process_image: the opened picture, Absent for None
process_image(src) == IF Decodable(src) THEN src ELSE Absent

\* the first yielded row stored under another filename, NoId when none
RECURSIVE FirstOther(_, _, _)
FirstOther(recs, ys, f) ==
    IF ys = <<>> THEN NoId
    ELSE IF recs[Head(ys)].filename # f THEN Head(ys)
    ELSE FirstOther(recs, Tail(ys), f)

_create(recs, dsk, nid, filename, tags, handle, trim, shrink) ==
    LET src == handle.content
        do_save == ~exists(dsk, filename)
        checksum == IF exists(dsk, filename) THEN get_checksum(dsk[filename])
                    ELSE get_checksum(src)
        found == ByChecksum(recs, checksum)
        skip == config.skip_hash
        im == IF skip THEN (IF trim \/ shrink THEN process_image(src) ELSE Absent)
              ELSE process_image(src)
        h == IF skip \/ im = Absent THEN NoHash ELSE get_image_hash(im)
        scan == similar_images_by_hash(recs, h, config.threshold)
        other == FirstOther(recs, scan.yielded, filename)
        same == {i \in Ids(recs) : recs[i].filename = filename
                    /\ \E k \in 1..Len(scan.yielded) : scan.yielded[k] = i}
        imSave == IF handle.kind = "bytes" THEN process_image(src) ELSE im
        copied == IF handle.kind = "path" THEN [dsk EXCEPT ![filename] = src] ELSE dsk
        saved == IF ~do_save THEN dsk
                 ELSE IF imSave # Absent
                      THEN [copied EXCEPT ![filename] = Saved(imSave, trim \/ shrink)]
                      ELSE copied
        viol == Violations(recs, NoId, filename, h)
        row == Row(filename, checksum, h, {})
        tagged == IF tags # NoTags /\ tags # <<>> THEN add_tags(row, tags) ELSE row
    IN  IF checksum = NoChecksum THEN Res("None", recs, dsk, nid, NoId, {}, {})
        ELSE IF found # NoId THEN
            IF recs[found].filename # filename THEN
                IF exists(dsk, recs[found].filename)
                THEN Res("Conflict", recs, dsk, nid, found, {recs[found].filename}, {})
                ELSE Res("FileNotFoundError", recs, dsk, nid, found, {}, {})
            ELSE Res("Reused", recs, dsk, nid, found, {}, {})
        ELSE IF ~skip /\ im = Absent THEN Res("Error", recs, dsk, nid, NoId, {}, {})
        ELSE IF ~skip /\ h = NoHash THEN Res("Error", recs, dsk, nid, NoId, {}, {})
        ELSE IF ~skip /\ other # NoId THEN
            IF exists(dsk, recs[other].filename)
            THEN Res("Conflict", recs, dsk, nid, other, {recs[other].filename}, {})
            ELSE Res("FileNotFoundError", recs, dsk, nid, other, {}, {})
        ELSE IF ~skip /\ scan.raised THEN Res("TypeError", recs, dsk, nid, NoId, {}, {})
        ELSE IF ~skip /\ same # {} THEN
            Res("Reused", recs, saved, nid, First(same), {}, {})
        ELSE IF viol # {} THEN Res("IntegrityError", recs, saved, nid, NoId, {}, viol)
        ELSE IF ~exists(saved, filename)
             THEN Res("FileNotFoundError", With(recs, nid, tagged), saved, nid + 1, nid, {}, {})
             ELSE Res("Created", With(recs, nid, tagged), saved, nid + 1, nid, {filename}, {})

BytesHandle(c) == [kind |-> "bytes", content |-> c]
PathHandle(c) == [kind |-> "path", content |-> c]

\* ------------------------------------------------------------------- util
RECURSIVE Reverse(_)
Reverse(sq) == IF sq = <<>> THEN <<>> ELSE Reverse(Tail(sq)) \o <<Head(sq)>>

NoRoot == "<None>"
IMG_FOLDER_PATH == "<folder>"

\* mutant: relative_to=None taken as the managed root
complete_path_split_Relative(dir, relative_to) ==
    [raised |-> FALSE, components |-> Reverse(dir)]

\* util.complete_path_split of a folder below the managed root:
\* Path(path).relative_to(None) raises TypeError
complete_path_split(dir, relative_to) ==
    IF relative_to = NoRoot THEN [raised |-> TRUE, components |-> <<>>]
    ELSE [raised |-> FALSE, components |-> Reverse(dir)]

\* util.images_in_path(): the image files of the managed folder
images_in_path(dsk) == {p \in AllPaths : exists(dsk, p)}

\* send2trash of a set of files of the managed folder
Trash(dsk, ps) == [p \in AllPaths |-> IF p \in ps THEN Absent ELSE dsk[p]]

\* util.remove_non_images(): sends every file that images_in_path yields to the trash
remove_non_images(dsk) == Trash(dsk, images_in_path(dsk))

\* ------------------------------------------------------------ from_existing
\* a source file: inside the managed folder (at `path`) or outside it
InsideSource(p) == [inside |-> TRUE, path |-> p]
OutsideSource(p, c) == [inside |-> FALSE, path |-> p, content |-> c]

SourceContent(dsk, source) == IF source.inside THEN dsk[source.path] ELSE source.content

\* Image.from_existing from db.py 194 on, rel_path and is_relative being known;
\* the argument skip_hash (db.py 172) is read nowhere in the body: _create
\* takes config['skip_hash'] instead (db.py 250)
from_existing_rel(recs, dsk, nid, source, rel_path, is_relative, tags, skip_hash) ==
    LET tags0 == IF tags = NoTags THEN <<>> ELSE tags
        split == complete_path_split(rel_path.dir, NoRoot)
        tags1 == tags0 \o split.components
        \* a str returned by _create sends a source inside the folder to the trash
        trashIt(r) == r.outcome \in {"Conflict", "Error"} /\ is_relative
        returned(r) ==
            [res |-> IF trashIt(r) THEN [r EXCEPT !.disk = Trash(@, {source.path})] ELSE r,
             tags |-> tags1, filename |-> rel_path, trashedSource |-> trashIt(r)]
    IN  IF split.raised
        THEN [res |-> Res("TypeError", recs, dsk, nid, NoId, {}, {}), tags |-> tags0,
              filename |-> rel_path, trashedSource |-> FALSE]
        ELSE CHOOSE fe \in {returned(r) :
                                r \in {_create(recs, dsk, nid, rel_path, tags1,
                                               PathHandle(SourceContent(dsk, source)),
                                               FALSE, FALSE)}} : TRUE

\* the path of a source relative to the folder that holds it
RelPath(source) ==
    IF source.inside THEN source.path ELSE FN(<<>>, source.path.stem, source.path.sfx)

\* Image.from_existing(abs_path, tags=tags) with rel_path=None, skip_hash=False
from_existing(recs, dsk, nid, source, tags) ==
    from_existing_rel(recs, dsk, nid, source, RelPath(source), source.inside, tags, FALSE)

\* ------------------------------------------------------------ from_bytes_io
Requested == {"img"}

\* Path(filename) of a requested name
PathOf(req) == IF req = "a/b/new" THEN NewFile ELSE FN(<<>>, req, NoSfx)
TagLists == {NoTags, <<>>, <<"cat">>}
AddContents == {1, 2, 3, 4, 5}

\* Image.from_bytes_io(im_bytes_io, filename, tags); u is the uuid4 drawn
from_bytes_io(recs, dsk, nid, c, req, tags, u) ==
    LET requested == IF req = NoName \/ req = "image" THEN FN(<<"blob">>, u, NoSfx)
                     ELSE PathOf(req)
        filename == nonrepeat_filename(dsk, requested, slugify(JoinTags(tags)))
    IN  IF tags = NoTags
        THEN [res |-> Res("TypeError", recs, dsk, nid, NoId, {}, {}), filename |-> NoPath]
        ELSE IF filename = NoPath
        THEN [res |-> Res("capped", recs, dsk, nid, NoId, {}, {}), filename |-> NoPath]
        ELSE [res |-> _create(recs, dsk, nid, filename, tags, BytesHandle(c), TRUE, TRUE),
              filename |-> filename]

\* ----------------------------------------------------------------- actions
\* the configurations tried: the default one (config.py 9-12), near-duplicate
\* matching with a threshold, and hashing switched off
Configs ==
    {[skip_hash |-> FALSE, threshold |-> 0],
     [skip_hash |-> FALSE, threshold |-> 2],
     [skip_hash |-> TRUE, threshold |-> 0]}

Init ==
    /\ records = <<>>
    /\ nextId = 1
    /\ disk = [p \in AllPaths |-> Absent]
    /\ config \in Configs
    /\ session = "active"
    /\ edits = 0
    /\ steps = 0
    /\ origin = <<>>
    /\ ret = NoRet

SessionAfter(outcome) == IF outcome = "IntegrityError" THEN "inactive" ELSE session

\* what a call reports: its inputs are kept only when it changed the index or the folder
Report(op, r, changed, c, req, tags, filename, flag) ==
    IF changed
    THEN [NoRet EXCEPT !.op = op, !.outcome = r.outcome, !.content = c, !.req = req,
                       !.tags = tags, !.filename = filename, !.rec = r.rec,
                       !.violated = r.violated, !.flag = flag]
    ELSE [NoRet EXCEPT !.op = op, !.outcome = r.outcome]

\* Image.add(fp, tags, filename=...) with in-memory bytes
AddBytes ==
    /\ steps < MaxSteps
    /\ session = "active"
    /\ \E c \in AddContents, req \in Requested, tags \in TagLists, u \in Uuids :
        \E fb \in {from_bytes_io(records, disk, nextId, c, req, tags, u)} :
          LET r == fb.res
          IN
            /\ r.outcome # "capped"
            /\ r.nextId <= MaxId + 1
            /\ records' = r.records
            /\ nextId' = r.nextId
            /\ disk' = r.disk
            /\ session' = SessionAfter(r.outcome)
            /\ ret' = Report("from_bytes_io", r, r.records # records \/ r.disk # disk,
                             c, req, tags, fb.filename, FALSE)
            /\ UNCHANGED <<config, edits>>
            /\ Step

OutsideFiles == {FN(<<"ext">>, "img", NoSfx), FN(<<"ext">>, "cat_copy", NoSfx)}
\* what the files outside the managed folder hold: an image, or no image
OutsideContents == {3, 5}
ExistingTags == {NoTags, <<"cat">>}
Sources(dsk) ==
    {InsideSource(p) : p \in images_in_path(dsk)}
    \cup {OutsideSource(p, c) : p \in OutsideFiles, c \in OutsideContents}

\* Image.add(fp, tags) with the path of an existing file
AddExisting ==
    /\ steps < MaxSteps
    /\ \E source \in Sources(disk), tags \in ExistingTags :
        \E fe \in {from_existing(records, disk, nextId, source, tags)} :
          LET r == fe.res
          IN
            /\ r.nextId <= MaxId + 1
            /\ records' = r.records
            /\ nextId' = r.nextId
            /\ disk' = r.disk
            /\ session' = SessionAfter(r.outcome)
            /\ ret' = Report("from_existing", r, r.records # records \/ r.disk # disk,
                             SourceContent(disk, source), source.path.stem, fe.tags,
                             fe.filename, source.inside)
            /\ UNCHANGED <<config, edits>>
            /\ Step

\* ImServ.__init__: a new session on the same database
ImServInit ==
    /\ steps < MaxSteps
    /\ session = "inactive"
    /\ session' = "active"
    /\ ret' = [NoRet EXCEPT !.op = "ImServ"]
    /\ UNCHANGED <<records, nextId, disk, config, edits>>
    /\ Step

EditContents == {3, 5}

\* the user edits, replaces, adds or removes a file of the managed folder
ExternalEdit ==
    /\ steps < MaxSteps
    /\ \E p \in AllPaths, c \in EditContents \cup {Absent} :
        /\ edits < MaxEdits
        /\ exists(disk, p) \/ (p = NewFile /\ c # Absent)
        /\ disk[p] # c
        /\ disk' = [disk EXCEPT ![p] = c]
        /\ edits' = edits + 1
        /\ ret' = [NoRet EXCEPT !.op = "edit"]
        /\ UNCHANGED <<records, nextId, config, session>>
        /\ Step

\* ------------------------------------------------------------------ refresh
\* rows `com` are the committed table; `del` are the rows passed to
\* session.delete() that no commit has flushed yet
\* mutant: the rows passed to session.delete() are never deleted
Minus_KeepAll(recs, del) == recs

Minus(recs, del) == [i \in Ids(recs) \ del |-> recs[i]]

\* one iteration of the first loop of refresh (main.py 297-306) for the row
\* `id`; `com` is the committed table, `cur` the table as the open transaction
\* sees it and `del` the rows passed to session.delete() and not yet flushed.
\* A commit flushes the UPDATE before the pending DELETEs.
PruneStep(st, id, dsk) ==
    LET row == st.cur[id]
        f == row.filename
        checksum == get_checksum(dsk[f])
        newRow == [row EXCEPT !.image_hash = get_image_hash(dsk[f]), !.checksum = checksum]
        flushed == Minus(With(st.cur, id, newRow), st.del)
    IN  IF ~exists(dsk, f)
        THEN [st EXCEPT !.del = @ \cup {id}, !.pruned = @ \cup {id}]
        ELSE IF checksum = row.checksum
        THEN [st EXCEPT !.seen = @ \cup {f}]
        ELSE IF Violations(st.cur, id, f, newRow.image_hash) # {}
        THEN [st EXCEPT !.outcome = "IntegrityError", !.cur = st.com, !.del = {},
                        !.pruned = @ \ st.del]
        ELSE [st EXCEPT !.com = flushed, !.cur = flushed, !.del = {},
                        !.seen = @ \cup {f}, !.updated = @ \cup {id}]

\* first loop of refresh (main.py 292-306) over the rows `ids`
RECURSIVE PruneUpdate(_, _, _)
PruneUpdate(st, ids, dsk) ==
    IF ids = <<>> \/ st.outcome # "ok" THEN st
    ELSE CHOOSE r \in {PruneUpdate(s, Tail(ids), dsk) :
                           s \in {PruneStep(st, Head(ids), dsk)}} : TRUE

\* one iteration of the second loop of refresh (main.py 315-330)
DiscoverStep(st, file_path, seen, do_delete) ==
    LET h == get_image_hash(st.disk[file_path])
        preexisting == ByImageHash(st.records, h)
        folderTags == complete_path_split(file_path.dir, IMG_FOLDER_PATH).components
        \* db_image = Image.from_existing(...) returned r; db_image.add_tags(...)
        added(r) ==
            IF r.outcome \in {"Created", "Reused"}
            THEN [st EXCEPT !.records = [r.records EXCEPT ![r.rec] = add_tags(@, folderTags)],
                            !.disk = r.disk, !.nextId = r.nextId, !.added = @ \cup {r.rec}]
            ELSE [st EXCEPT !.outcome = IF r.outcome \in {"Conflict", "Error", "None"}
                                        THEN "AttributeError" ELSE r.outcome,
                            !.records = r.records, !.disk = r.disk, !.nextId = r.nextId,
                            !.violated = r.violated]
    IN  IF file_path \in seen \/ h = NoHash THEN st
        ELSE IF preexisting # NoId
        THEN IF do_delete
             THEN [st EXCEPT !.disk = Trash(@, {file_path}), !.trashed = @ \cup {file_path}]
             ELSE st
        ELSE CHOOSE s \in {added(fe.res) :
                               fe \in {from_existing(st.records, st.disk, st.nextId,
                                                     InsideSource(file_path), NoTags)}} : TRUE

\* second loop of refresh (main.py 310-330) over the files `files`
RECURSIVE Discover(_, _, _, _)
Discover(st, files, seen, do_delete) ==
    IF files = <<>> \/ st.outcome # "ok" THEN st
    ELSE CHOOSE r \in {Discover(s, Tail(files), seen, do_delete) :
                           s \in {DiscoverStep(st, Head(files), seen, do_delete)}} : TRUE

\* the elements of a sequence that are in a set, in the order of the sequence
RECURSIVE Restrict(_, _)
Restrict(sq, S) ==
    IF sq = <<>> THEN <<>>
    ELSE (IF Head(sq) \in S THEN <<Head(sq)>> ELSE <<>>) \o Restrict(Tail(sq), S)

refresh(com, cur, dsk, nid, do_delete) ==
    LET files == Restrict(PathOrder, images_in_path(dsk))
        first == PruneUpdate([outcome |-> "ok", com |-> com, cur |-> cur, del |-> {},
                              seen |-> {}, pruned |-> {}, updated |-> {}],
                             SortedIds(Ids(cur)), dsk)
        \* the second loop starts from what the first one committed, and is
        \* not entered when the first one raised
        second(pu) == Discover([outcome |-> pu.outcome, records |-> Minus(pu.cur, pu.del),
                                disk |-> dsk, nextId |-> nid, added |-> {}, trashed |-> {},
                                violated |-> IF pu.outcome = "ok" THEN {} ELSE {"image_hash"}],
                               files, pu.seen, do_delete)
        \* remove_non_images(IMG_FOLDER_PATH) on main.py 332-333
        \* `swept` are the files that it sends to the trash
        sweep(dc) == IF dc.outcome = "ok" /\ do_delete
                     THEN [dc EXCEPT !.disk = remove_non_images(@),
                                     !.trashed = @ \cup images_in_path(dc.disk)]
                          @@ [swept |-> images_in_path(dc.disk)]
                     ELSE dc @@ [swept |-> {}]
    IN  CHOOSE r \in UNION {{sweep(dc) @@ [pruned |-> pu.pruned, updated |-> pu.updated] :
                                dc \in {second(pu)}} : pu \in {first}} : TRUE

\* refresh stopped after the first k rows of its first loop (main.py 292-306):
\* `com` of the result is the table that the database holds then
refresh_interrupted(recs, dsk, k) ==
    PruneUpdate([outcome |-> "ok", com |-> recs, cur |-> recs, del |-> {},
                 seen |-> {}, pruned |-> {}, updated |-> {}],
                SubSeq(SortedIds(Ids(recs)), 1, k), dsk)

\* the index and the folder agree: every row has its file, with the stored
\* checksum, and every image file has its row
InSync(recs, dsk) ==
    /\ \A i \in Ids(recs) :
          exists(dsk, recs[i].filename) /\ get_checksum(dsk[recs[i].filename]) = recs[i].checksum
    /\ \A p \in images_in_path(dsk) : \E i \in Ids(recs) : recs[i].filename = p

\* they agree but for the file of row m, which is gone
OneMissing(recs, dsk, m) ==
    /\ m \in Ids(recs)
    /\ ~exists(dsk, recs[m].filename)
    /\ InSync(Without(recs, m), dsk)

\* ImServ.refresh(do_delete)
Refresh ==
    /\ steps < MaxSteps
    /\ session = "active"
    /\ \E do_delete \in BOOLEAN :
        \E r \in {refresh(records, records, disk, nextId, do_delete)} :
            /\ r.nextId <= MaxId + 1
            /\ records' = r.records
            /\ disk' = r.disk
            /\ nextId' = r.nextId
            /\ session' = SessionAfter(r.outcome)
            /\ ret' = [NoRet EXCEPT !.op = "refresh", !.outcome = r.outcome,
                                    !.flag = do_delete, !.pruned = r.pruned,
                                    !.updated = r.updated, !.added = r.added,
                                    !.onePruned = \E m \in Ids(records) :
                                                      OneMissing(records, disk, m)]
            /\ UNCHANGED <<config, edits>>
            /\ Step

\* ----------------------------------------------------------- calculate_hash
\* one iteration of the loop of calculate_hash (main.py 356-372) for the row `id`
HashStep(st, id) ==
    LET f == st.cur[id].filename
        h == get_image_hash(st.disk[f])
        gone == Without(st.cur, id)
        hashed == [st.cur EXCEPT ![id].image_hash = h]
    IN  IF ~exists(st.disk, f) THEN [st EXCEPT !.cur = gone]
        ELSE IF h = NoHash THEN [st EXCEPT !.com = gone, !.cur = gone]
        ELSE IF ByImageHash(st.cur, h) # NoId
        THEN [com |-> gone, cur |-> gone, disk |-> Trash(st.disk, {f})]
        ELSE [st EXCEPT !.com = hashed, !.cur = hashed]

\* loop of calculate_hash (main.py 351-372) over the rows `ids`
RECURSIVE HashLoop(_, _)
HashLoop(st, ids) ==
    IF ids = <<>> THEN st
    ELSE CHOOSE r \in {HashLoop(s, Tail(ids)) : s \in {HashStep(st, Head(ids))}} : TRUE

calculate_hash(recs, dsk, nid, reset) ==
    LET cleared == IF reset THEN [i \in Ids(recs) |-> [recs[i] EXCEPT !.image_hash = NoHash]]
                   ELSE recs
        ids == SortedIds({i \in Ids(cleared) : cleared[i].image_hash = NoHash})
        hl == HashLoop([com |-> cleared, cur |-> cleared, disk |-> dsk], ids)
    IN  CHOOSE r \in {refresh(st.com, st.cur, st.disk, nid, TRUE) : st \in {hl}} : TRUE

\* the index holds the three rows a, b, c with their files, the files of a
\* and b hash to the same value and that of c to another one
DuplicatePair(recs, dsk, a, b, c) ==
    /\ Ids(recs) = {a, b, c} /\ Cardinality({a, b, c}) = 3
    /\ \A i \in Ids(recs) : exists(dsk, recs[i].filename)
    /\ get_image_hash(dsk[recs[a].filename]) # NoHash
    /\ get_image_hash(dsk[recs[a].filename]) = get_image_hash(dsk[recs[b].filename])
    /\ get_image_hash(dsk[recs[c].filename])
         \notin {NoHash, get_image_hash(dsk[recs[a].filename])}

\* ImServ.calculate_hash(reset)
CalculateHash ==
    /\ steps < MaxSteps
    /\ session = "active"
    /\ \E reset \in BOOLEAN :
        \E r \in {calculate_hash(records, disk, nextId, reset)} :
            /\ r.nextId <= MaxId + 1
            /\ records' = r.records
            /\ disk' = r.disk
            /\ nextId' = r.nextId
            /\ session' = SessionAfter(r.outcome)
            /\ ret' = [NoRet EXCEPT !.op = "calculate_hash", !.outcome = r.outcome,
                                    !.flag = reset, !.pruned = r.pruned,
                                    !.updated = r.updated, !.added = r.added,
                                    !.dupPair = \E a, b, c \in Ids(records) :
                                                    DuplicatePair(records, disk, a, b, c)]
            /\ UNCHANGED <<config, edits>>
            /\ Step

\* ------------------------------------------------------------ import_images
\* one iteration of the loop of import_images (main.py 210-211): the value
\* that from_existing returns is dropped, what it raises ends the loop; `tags`
\* is the one list that every call extends
ImportStep(st, source, skip_hash) ==
    LET after(fe, r) ==
            IF r.outcome \in {"TypeError", "FileNotFoundError", "IntegrityError"}
            THEN [st EXCEPT !.outcome = r.outcome, !.records = r.records, !.disk = r.disk,
                            !.nextId = r.nextId, !.violated = r.violated]
            ELSE [st EXCEPT !.records = r.records, !.disk = r.disk, !.nextId = r.nextId,
                            !.processed = @ + 1,
                            !.tags = IF st.tags = NoTags THEN NoTags ELSE fe.tags]
    IN  CHOOSE s \in {after(fe, fe.res) :
                          fe \in {from_existing_rel(st.records, st.disk, st.nextId, source,
                                                    RelPath(source), FALSE, st.tags,
                                                    skip_hash)}} : TRUE

RECURSIVE ImportLoop(_, _, _)
ImportLoop(st, batch, skip_hash) ==
    IF batch = <<>> \/ st.outcome # "ok" THEN st
    ELSE CHOOSE r \in {ImportLoop(s, Tail(batch), skip_hash) :
                           s \in {ImportStep(st, Head(batch), skip_hash)}} : TRUE

\* ImServ.import_images(file_path, tags, skip_hash); `batch` lists the image
\* files of file_path
import_images(recs, dsk, nid, batch, tags, skip_hash) ==
    ImportLoop([outcome |-> "ok", records |-> recs, disk |-> dsk, nextId |-> nid,
                violated |-> {}, processed |-> 0, tags |-> tags], batch, skip_hash)

\* the folders imported: the managed folder itself, and a folder outside it
\* that holds two files
Batches(dsk) ==
    {SetToSeq({InsideSource(p) : p \in images_in_path(dsk)})}
    \cup {<<OutsideSource(FN(<<"ext">>, "cat_copy", NoSfx), c),
            OutsideSource(FN(<<"ext">>, "img", NoSfx), 3)>> : c \in OutsideContents}

ImportImages ==
    /\ steps < MaxSteps
    /\ session = "active"
    /\ \E batch \in Batches(disk), tags \in ExistingTags, skip_hash \in BOOLEAN :
        \E r \in {import_images(records, disk, nextId, batch, tags, skip_hash)} :
            /\ r.nextId <= MaxId + 1
            /\ records' = r.records
            /\ disk' = r.disk
            /\ nextId' = r.nextId
            /\ session' = SessionAfter(r.outcome)
            /\ ret' = [NoRet EXCEPT !.op = "import_images", !.outcome = r.outcome,
                                    !.batch = Len(batch), !.processed = r.processed]
            /\ UNCHANGED <<config, edits>>
            /\ Step

\* --------------------------------------------------------------- move, delete
\* '-'.join(self.tags) for the tag sets of the model
JoinTagSet(tags) == IF tags = {} THEN "" ELSE CHOOSE t \in tags : TRUE

\* Image.move(new_filename) of the row `id`; new_filename lies in the managed folder
move(recs, dsk, id, target) ==
    LET new_filename == nonrepeat_filename(dsk, target, JoinTagSet(recs[id].tags))
        old == recs[id].filename
        moved == [dsk EXCEPT ![new_filename] = dsk[old], ![old] = Absent]
    IN  IF new_filename = NoPath THEN [outcome |-> "capped", records |-> recs, disk |-> dsk]
        ELSE IF ~exists(dsk, old)
        THEN [outcome |-> "FileNotFoundError", records |-> recs, disk |-> dsk]
        ELSE IF Violations(recs, id, new_filename, NoHash) # {}
        THEN [outcome |-> "IntegrityError", records |-> recs, disk |-> moved]
        ELSE [outcome |-> "ok", records |-> [recs EXCEPT ![id].filename = new_filename],
              disk |-> moved]

MoveTargets == {FN(<<>>, "img", NoSfx), NewFile}

Move ==
    /\ steps < MaxSteps
    /\ session = "active"
    /\ \E id \in Ids(records), target \in MoveTargets :
        \E r \in {move(records, disk, id, target)} :
            /\ r.outcome # "capped"
            /\ records' = r.records
            /\ disk' = r.disk
            /\ session' = SessionAfter(r.outcome)
            /\ ret' = [NoRet EXCEPT !.op = "move", !.outcome = r.outcome, !.rec = id]
            /\ UNCHANGED <<nextId, config, edits>>
            /\ Step

\* Image.delete() of the row `id`
delete(recs, dsk, id) ==
    [records |-> Without(recs, id),
     disk |-> IF exists(dsk, recs[id].filename) THEN Trash(dsk, {recs[id].filename}) ELSE dsk]

Delete ==
    /\ steps < MaxSteps
    /\ session = "active"
    /\ \E id \in Ids(records) :
        \E r \in {delete(records, disk, id)} :
            /\ records' = r.records
            /\ disk' = r.disk
            /\ ret' = [NoRet EXCEPT !.op = "delete", !.outcome = "ok", !.rec = id]
            /\ UNCHANGED <<nextId, config, session, edits>>
            /\ Step

Next ==
    \/ AddBytes
    \/ AddExisting
    \/ Refresh
    \/ CalculateHash
    \/ ImportImages
    \/ Move
    \/ Delete
    \/ ImServInit
    \/ ExternalEdit

Spec == Init /\ [][Next]_vars

\* ------------------------------------------------------------------- tags
\* the tags handed to add_tags and remove_tags
TagPool == {"cat", "a", "", "a\nb"}

\* the index after one import: a record without tags
InitTags ==
    /\ records = <<Row(FN(<<>>, "img", NoSfx), get_checksum(3), get_image_hash(3), {})>>
    /\ nextId = 2
    /\ disk = [p \in AllPaths |-> IF p = FN(<<>>, "img", NoSfx) THEN 3 ELSE Absent]
    /\ config \in Configs
    /\ session = "active"
    /\ edits = 0
    /\ steps = 0
    /\ origin = <<3>>
    /\ ret = NoRet

\* Image.add_tags(tags) on the row `id`
AddTags ==
    /\ steps < MaxSteps
    /\ session = "active"
    /\ \E id \in Ids(records), T \in SUBSET TagPool :
        /\ records' = [records EXCEPT ![id] = add_tags(@, SetToSeq(T))]
        /\ ret' = [NoRet EXCEPT !.op = "add_tags", !.outcome = "ok", !.rec = id,
                                !.tagsBefore = records[id].tags, !.tagArg = T]
        /\ UNCHANGED <<nextId, disk, config, session, edits>>
        /\ Step

\* Image.remove_tags(tags) on the row `id`
RemoveTags ==
    /\ steps < MaxSteps
    /\ session = "active"
    /\ \E id \in Ids(records), T \in SUBSET TagPool :
        /\ records' = [records EXCEPT ![id] = remove_tags(@, SetToSeq(T))]
        /\ ret' = [NoRet EXCEPT !.op = "remove_tags", !.outcome = "ok", !.rec = id,
                                !.tagsBefore = records[id].tags, !.tagArg = T]
        /\ UNCHANGED <<nextId, disk, config, session, edits>>
        /\ Step

NextTags == AddTags \/ RemoveTags

SpecTags == InitTags /\ [][NextTags]_vars

TypeOK ==
    /\ nextId \in 1..(MaxId + 1)
    /\ session \in {"active", "inactive"}
    /\ edits \in 0..MaxEdits
    /\ steps \in 0..MaxSteps
    /\ \A i \in Ids(records) : i < nextId

\* ================================================================== claims
Uuid == CHOOSE u \in Uuids : TRUE

RealTags == TagLists \ {NoTags}

\* C1: importing the same bytes under the same requested name a second time
\* returns Reused with the record that the first import Created, and leaves
\* exactly one record for that content.
C1_SecondImportReused ==
    (ret.op \in {"from_bytes_io", "from_existing"} /\ ret.outcome = "Created"
        /\ ret.op = "from_bytes_io")
    => LET again == from_bytes_io(records, disk, nextId, ret.content, ret.req, ret.tags,
                                  Uuid).res
       IN  /\ again.outcome = "Reused"
           /\ again.rec = ret.rec
           /\ Cardinality({i \in Ids(again.records) :
                              again.records[i].checksum = get_checksum(ret.content)}) = 1

\* C2: a second import of bytes whose import already created a record never
\* creates another record: it returns Reused when its target path is the
\* record's path and Conflict otherwise.
C2_SecondImportNeverCreates ==
    \A i \in Ids(records), tags \in RealTags :
        session = "active" =>
        LET fb == from_bytes_io(records, disk, nextId, origin[i], "img", tags, Uuid)
        IN  fb.res.outcome # "capped" =>
            /\ fb.res.records = records
            /\ fb.res.outcome = IF fb.filename = records[i].filename THEN "Reused"
                                ELSE "Conflict"

\* C3: no two records have the same checksum.
C3_ChecksumUnique ==
    \A i, j \in Ids(records) : i # j => records[i].checksum # records[j].checksum

\* C4: no two records have the same path, and no add attempts to insert a
\* record whose path another record holds.
C4_PathUnique ==
    /\ \A i, j \in Ids(records) : i # j => records[i].filename # records[j].filename
    /\ ~(ret.op \in {"from_bytes_io", "from_existing"} /\ "filename" \in ret.violated)

\* the ids a scan yielded
Yielded(scan) == {scan.yielded[k] : k \in 1..Len(scan.yielded)}

\* the target path of from_existing for a source
TargetOf(source) ==
    IF source.inside THEN source.path ELSE FN(<<>>, source.path.stem, source.path.sfx)

\* C5: with a record R for content C at path p in the index, adding a file
\* with the same bytes whose target path is not p returns Conflict with R,
\* changes no record, stores no file, and sends the source to the trash
\* when the source lies outside the managed folder.
C5_ExactDuplicateConflict ==
    \A i \in Ids(records), source \in Sources(disk), tags \in ExistingTags :
        (/\ exists(disk, records[i].filename)
         /\ disk[records[i].filename] = SourceContent(disk, source)
         /\ records[i].checksum = get_checksum(SourceContent(disk, source))
         /\ TargetOf(source) # records[i].filename)
        => LET fe == from_existing(records, disk, nextId, source, tags)
           IN  /\ fe.res.outcome = "Conflict"
               /\ fe.res.rec = i
               /\ fe.res.records = records
               /\ \A p \in AllPaths : exists(fe.res.disk, p) => exists(disk, p)
               /\ ~source.inside => fe.trashedSource

\* C6: with a threshold t > 0 and hashing on, adding an image with no exact
\* match returns Conflict and changes nothing when a record at another path
\* has a hash at distance < t, and returns Created when every record's hash
\* is at distance >= t.
C6_NearDuplicateConflict ==
    (config.threshold > 0 /\ ~config.skip_hash /\ session = "active") =>
    \A c \in {x \in AddContents : Decodable(x)}, tags \in RealTags :
        LET fb == from_bytes_io(records, disk, nextId, c, "img", tags, Uuid)
            h == get_image_hash(c)
            hashed == {i \in Ids(records) : records[i].image_hash # NoHash}
            near == \E i \in hashed :
                        /\ records[i].filename # fb.filename
                        /\ HashDistance(records[i].image_hash, h) < config.threshold
            far == \A i \in hashed :
                        HashDistance(records[i].image_hash, h) >= config.threshold
        IN  (fb.res.outcome # "capped" /\ ByChecksum(records, get_checksum(c)) = NoId)
            => /\ near => (fb.res.outcome = "Conflict" /\ fb.res.records = records
                               /\ fb.res.disk = disk)
               /\ far => fb.res.outcome = "Created"

Hashes == {RawHash(c) : c \in {x \in Contents : Decodable(x)}}

\* C7: similar_images_by_hash returns, for thresholds t1 <= t2, a subset at
\* t1 of what it returns at t2, and at threshold 0 exactly the records whose
\* image_hash equals h; this for every index, rows without a hash included.
C7_ThresholdMonotone ==
    \A h \in Hashes, t1 \in 0..HashBits, t2 \in 0..HashBits :
        t1 <= t2 =>
        LET r1 == similar_images_by_hash(records, h, t1)
            r2 == similar_images_by_hash(records, h, t2)
        IN  /\ ~r1.raised /\ ~r2.raised
            /\ Yielded(r1) \subseteq Yielded(r2)
            /\ Yielded(similar_images_by_hash(records, h, 0))
                  = {i \in Ids(records) : records[i].image_hash = h}

\* C8: when the index and the folder agree except that the file of one
\* record is gone, refresh leaves exactly the other records, each unchanged,
\* and adds none.
C8_PruneExactlyOne ==
    [][\A m \in Ids(records) :
          (ret'.op = "refresh" /\ steps' = steps + 1 /\ OneMissing(records, disk, m))
          => records' = Without(records, m)]_vars

\* a file that had been stored was removed from outside, refresh has run on
\* the index that agreed with the folder otherwise, and another record is left
C8_Witness ==
    /\ ~config.skip_hash /\ edits = 1
    /\ ret.op = "refresh" /\ ret.onePruned /\ Cardinality(ret.pruned) = 1
    /\ records # <<>>

\* C9: an image file with content that the index does not hold, placed at
\* a/b/new.png, is registered by refresh as exactly one new record with that
\* path and the tags {"a", "b"}, and no two records share a checksum.
C9_DiscoverNewFile ==
    \A do_delete \in BOOLEAN :
        (/\ session = "active"
         /\ exists(disk, NewFile) /\ Decodable(disk[NewFile])
         /\ \A i \in Ids(records) :
               /\ records[i].filename # NewFile
               /\ records[i].checksum # get_checksum(disk[NewFile])
               /\ exists(disk, records[i].filename)
                    => get_checksum(disk[records[i].filename]) # get_checksum(disk[NewFile]))
        => LET r == refresh(records, records, disk, nextId, do_delete)
               new == Ids(r.records) \ Ids(records)
           IN  /\ Cardinality(new) = 1
               /\ \A n \in new : r.records[n].filename = NewFile
                                 /\ r.records[n].tags = {"a", "b"}
               /\ \A i, j \in Ids(r.records) :
                     i # j => r.records[i].checksum # r.records[j].checksum

\* C10: after an import under a requested name was Created, an import of
\* other, non-duplicate content under the same name is Created too, at
\* another path, and leaves the first file as it was; this for in-memory
\* bytes and for an outside file whose name is the requested one.
C10_PathDisambiguation ==
    (ret.op \in {"from_bytes_io", "from_existing"} /\ ret.outcome = "Created") =>
    \A c \in {x \in AddContents : Decodable(x)}, tags \in RealTags :
        LET first == records[ret.rec].filename
            fb == from_bytes_io(records, disk, nextId, c, ret.req, tags, Uuid)
            fe == from_existing(records, disk, nextId,
                                OutsideSource(FN(<<"ext">>, ret.req, NoSfx), c), tags)
            fresh == /\ ByChecksum(records, get_checksum(c)) = NoId
                     /\ \A i \in Ids(records) :
                           /\ records[i].image_hash # NoHash
                           /\ HashDistance(records[i].image_hash, get_image_hash(c))
                                >= config.threshold
                           /\ records[i].image_hash # get_image_hash(c)
            Stored(r, f) == /\ r.outcome = "Created"
                            /\ f # first
                            /\ exists(r.disk, f)
                            /\ r.disk[first] = disk[first]
        IN  (fresh /\ fb.res.outcome # "capped")
            => Stored(fb.res, fb.filename) /\ Stored(fe.res, fe.filename)

\* C11: calculate_hash(reset = TRUE) on three records with their files, two
\* of which hash to the same value and the third to another one, leaves
\* exactly one record of the pair and the third record in the index.
C11_DuplicatePairResolved ==
    [][\A a, b, c \in Ids(records) :
          (/\ ret'.op = "calculate_hash" /\ ret'.flag /\ steps' = steps + 1
           /\ DuplicatePair(records, disk, a, b, c))
          => /\ Cardinality(Ids(records') \cap {a, b}) = 1
             /\ c \in Ids(records')]_vars

\* calculate_hash(reset = TRUE) has run on such an index
C11_Witness ==
    /\ ret.op = "calculate_hash" /\ ret.flag /\ ret.dupPair
    /\ Cardinality(Ids(records)) = 2

\* C12: the sweep of refresh(do_delete = TRUE) sends no image file to the
\* trash (every file of the managed folder of the model is a .png), so the
\* file of every record is still there when refresh returns.
C12_SweepKeepsImages ==
    session = "active" =>
        LET r == refresh(records, records, disk, nextId, TRUE)
        IN  r.outcome = "ok" =>
                /\ r.swept = {}
                /\ \A i \in Ids(r.records) :
                      exists(disk, r.records[i].filename)
                         => exists(r.disk, r.records[i].filename)

\* the last call returned to its caller (a record, a message or nothing)
\* instead of raising
Returned ==
    /\ ret.op \in {"from_bytes_io", "from_existing", "refresh", "calculate_hash",
                   "move", "delete"}
    /\ ret.outcome \in {"Created", "Reused", "Conflict", "Error", "None", "ok"}

\* C13: when a call has returned and no file was changed from outside, every
\* record of the index has its file in the managed folder.
C13_RecordsHaveFiles ==
    (Returned /\ edits = 0) => \A i \in Ids(records) : exists(disk, records[i].filename)

\* C14: with a threshold t > 0 and hashing switched on, no two records have
\* perceptual hashes at a Hamming distance below t.
C14_NoNearDuplicates ==
    (config.threshold > 0 /\ ~config.skip_hash) =>
        \A i, j \in Ids(records) :
            (i # j /\ records[i].image_hash # NoHash /\ records[j].image_hash # NoHash)
            => HashDistance(records[i].image_hash, records[j].image_hash) >= config.threshold

\* a file that an import turns down: it cannot be decoded while hashing is
\* on, or a record at another path holds its checksum
TurnedDown(source) ==
    LET c == SourceContent(disk, source)
    IN  \/ ~config.skip_hash /\ ~Decodable(c)
        \/ \E i \in Ids(records) : /\ records[i].checksum = get_checksum(c)
                                   /\ records[i].filename # RelPath(source)

\* C15: a file that is turned down (Conflict, Error) does not end the batch
\* it is part of: import_images goes through every file of the folder and
\* returns, and so does refresh when such a file awaits discovery.
C15_BatchRobust ==
    session = "active" =>
        /\ \A batch \in Batches(disk), tags \in ExistingTags :
              (\E k \in 1..Len(batch) : TurnedDown(batch[k]))
              => LET r == import_images(records, disk, nextId, batch, tags, FALSE)
                 IN  r.outcome = "ok" /\ r.processed = Len(batch)
        /\ \A do_delete \in BOOLEAN :
              (\E p \in images_in_path(disk) :
                  /\ \A i \in Ids(records) : records[i].filename # p
                  /\ TurnedDown(InsideSource(p)))
              => refresh(records, records, disk, nextId, do_delete).outcome = "ok"

\* C17: add_tags(T) on a record with the tags S leaves it with S \cup T, and
\* remove_tags(T) leaves it with S \ T.
C17_TagSetSemantics ==
    /\ ret.op = "add_tags" => records[ret.rec].tags = ret.tagsBefore \cup ret.tagArg
    /\ ret.op = "remove_tags" => records[ret.rec].tags = ret.tagsBefore \ ret.tagArg

\* the tags of a list of tags
TagSet(tags) == IF tags = NoTags THEN {} ELSE {tags[i] : i \in 1..Len(tags)}

\* C16: a record that a direct add creates carries the requested tags only,
\* whatever the folders of its source and of its target are.
C16_DirectAddTags ==
    session = "active" =>
        /\ \A c \in AddContents, req \in Requested \cup {"a/b/new"},
              tags \in RealTags \cup {<<"">>} :
              LET r == from_bytes_io(records, disk, nextId, c, req, tags, Uuid).res
              IN  r.outcome = "Created" => r.records[r.rec].tags = TagSet(tags)
        /\ \A source \in Sources(disk), tags \in ExistingTags :
              LET r == from_existing(records, disk, nextId, source, tags).res
              IN  r.outcome = "Created" => r.records[r.rec].tags = TagSet(tags)

\* contents that PIL cannot open
Undecodable == {c \in AddContents : ~Decodable(c)}

\* C18: with hashing switched on, an add of a source that cannot be decoded
\* and whose checksum no record holds returns an error message and leaves the
\* index and the managed folder as they were.
C18_DecodeFailure ==
    (session = "active" /\ ~config.skip_hash) =>
        \A c \in {x \in Undecodable : ByChecksum(records, get_checksum(x)) = NoId} :
            /\ \A req \in Requested, tags \in TagLists :
                  LET r == from_bytes_io(records, disk, nextId, c, req, tags, Uuid).res
                  IN  r.outcome # "capped"
                      => r.outcome = "Error" /\ r.records = records /\ r.disk = disk
            /\ \A p \in OutsideFiles, tags \in ExistingTags :
                  LET r == from_existing(records, disk, nextId, OutsideSource(p, c), tags).res
                  IN  r.outcome = "Error" /\ r.records = records /\ r.disk = disk

\* C19: refresh(do_delete = FALSE) removes no file of the managed folder.
C19_RefreshKeepsFiles ==
    [][(ret'.op = "refresh" /\ ~ret'.flag /\ steps' = steps + 1)
          => \A p \in AllPaths : exists(disk, p) => exists(disk', p)]_vars

\* an image file that no record holds and that conflicts with a record, by
\* its checksum or by its hash
Conflicting(p) ==
    /\ exists(disk, p)
    /\ \A i \in Ids(records) : records[i].filename # p
    /\ \E i \in Ids(records) :
          \/ records[i].checksum = get_checksum(disk[p])
          \/ /\ records[i].image_hash # NoHash /\ get_image_hash(disk[p]) # NoHash
             /\ \/ records[i].image_hash = get_image_hash(disk[p])
                \/ HashDistance(records[i].image_hash, get_image_hash(disk[p]))
                     < config.threshold

\* refresh(do_delete = FALSE) has run on a folder that holds such a file
C19_Witness ==
    /\ ret.op = "refresh" /\ ~ret.flag /\ edits = 1
    /\ \E p \in AllPaths : Conflicting(p)

\* C20: when refresh returns, every record that it kept has the checksum of
\* its file as refresh read it, and a record whose file nobody changed has
\* the checksum and the hash that it had.
C20_RefreshUpdate ==
    [][(ret'.op = "refresh" /\ ret'.outcome = "ok" /\ steps' = steps + 1)
          => \A i \in Ids(records) \cap Ids(records') :
                /\ records'[i].checksum = get_checksum(disk[records[i].filename])
                /\ edits = 0 => /\ records'[i].checksum = records[i].checksum
                                /\ records'[i].image_hash = records[i].image_hash]_vars

\* C21: when an add returns Created or Reused, the checksum of the record
\* that it returns is the checksum of the file now at the record's path.
C21_StoredChecksumMatches ==
    \A c \in AddContents, req \in Requested, tags \in RealTags :
        session = "active" =>
        \A r \in {from_bytes_io(records, disk, nextId, c, req, tags, Uuid).res} :
            r.outcome \in {"Created", "Reused"} =>
                /\ exists(r.disk, r.records[r.rec].filename)
                /\ r.records[r.rec].checksum = get_checksum(r.disk[r.records[r.rec].filename])

\* a source whose bytes no record holds and whose target path is free
Fresh(source) ==
    /\ ByChecksum(records, get_checksum(SourceContent(disk, source))) = NoId
    /\ \A i \in Ids(records) : records[i].filename # RelPath(source)
    /\ source.inside \/ ~exists(disk, RelPath(source))

\* C22: an add of a fresh source with skip_hash = TRUE creates a record with
\* no perceptual hash and makes no near-duplicate lookup; a record that an
\* add with skip_hash = FALSE creates carries the hash of the picture.
C22_SkipHashPerCall ==
    \A source \in Sources(disk), tags \in ExistingTags, skip_hash \in BOOLEAN :
        session = "active" /\ Fresh(source) =>
        \A r \in {from_existing_rel(records, disk, nextId, source, RelPath(source),
                                    source.inside, tags, skip_hash).res} :
            /\ skip_hash => /\ r.outcome = "Created"
                            /\ r.records[r.rec].image_hash = NoHash
            /\ ~skip_hash /\ r.outcome = "Created"
                  => r.records[r.rec].image_hash
                       = get_image_hash(SourceContent(disk, source))

\* C23: when refresh is interrupted after the first k records, the database
\* holds every decision taken on them: a record found without its file is
\* deleted, a record found edited has the checksum and the hash of its file.
C23_InterruptibleRefresh ==
    session = "active" =>
    \A k \in 0..Cardinality(Ids(records)) :
        \A st \in {refresh_interrupted(records, disk, k)}, ids \in {SortedIds(Ids(records))} :
            st.outcome = "ok" =>
            \A j \in 1..k :
                \A f \in {records[ids[j]].filename} :
                    /\ ~exists(disk, f) => ids[j] \notin Ids(st.com)
                    /\ exists(disk, f) /\ get_checksum(disk[f]) # records[ids[j]].checksum
                          => /\ ids[j] \in Ids(st.com)
                             /\ st.com[ids[j]].checksum = get_checksum(disk[f])
                             /\ st.com[ids[j]].image_hash = get_image_hash(disk[f])

\* the tags that file k of a batch imported with the list T is to carry: T
\* and the components of the file's own folder
OwnTags(T, source) ==
    TagsOf(TagSet(T) \cup {RelPath(source).dir[n] : n \in 1..Len(RelPath(source).dir)})

====
